---- MODULE Spec2Model ----
(***************************************************************************)
(* A CachingTagTree (ringhopper/src/tag/tree.rs) wrapping a                *)
(* VirtualTagDirectory, driven by a single caller that opens, writes,      *)
(* evicts and commits tags and mutates the handles and copies it holds.    *)
(***************************************************************************)
EXTENDS Integers, Sequences, FiniteSets, TLC

\* ------------------------------------------------------------------ bounds
NumRoots == 2       \* length of VirtualTagDirectory::directories
MaxValue == 2       \* distinct tag contents
MaxHandles == 1     \* distinct shared handles the caller keeps at once
MaxCopies == 1      \* private copies (Box) the caller keeps at once
MaxPattern == 3     \* characters of a pattern given to the matcher
MaxWhat == 3        \* characters of a candidate given to the matcher
MaxVersion == 2     \* versions a tag type can have
NumThreads == 2     \* threads calling the tree

Roots == 0 .. (NumRoots - 1)
Values == 1 .. MaxValue

\* ------------------------------------------------------------- tag paths
\* A TagPath is a path (a sequence of components) and a group.
TagA == [path |-> <<"a">>, group |-> "bitmap"]
TagB == [path |-> <<"d", "b">>, group |-> "bitmap"]
TagPaths == {TagA, TagB}
NoPath == [path |-> <<>>, group |-> "none"]

\* The directory a tag's file lives in (file_to_write_to.parent()).
Parent(p) == SubSeq(p.path, 1, Len(p.path) - 1)

\* Directories a caller may list: the root, a sub-directory, a missing one.
DirPaths == {<<>>, <<"d">>, <<"x">>}

\* ------------------------------------------------------------ file system
\* Content of a physical file: absent, or a well-formed tag file holding a
\* value.
NoFile == 0
Contents == Values \cup {NoFile}

\* ----------------------------------------------------------------- errors
Error(kind, p) == [kind |-> kind, path |-> p]
NoError == Error("none", NoPath)
TagNotFound(p) == Error("TagNotFound", p)
FailedToReadFile == Error("FailedToReadFile", NoPath)
FailedToWriteFile == Error("FailedToWriteFile", NoPath)

\* ---------------------------------------------------------------- memory
\* Every Arc<Mutex<Box<..>>> and every Box the caller owns is an instance.
\* The instances made for one path come from a pool of their own, large
\* enough for the cached one and those only handles still refer to; the
\* copies the caller owns come from another.
PoolSize == MaxHandles + 1
NoInst == 0
NoValue == 0

PathIndex(p) == IF p = TagA THEN 0 ELSE 1
ArcPool(p) == (PathIndex(p) * PoolSize + 1) .. ((PathIndex(p) + 1) * PoolSize)
BoxPool ==
    (Cardinality(TagPaths) * PoolSize + 1) .. (Cardinality(TagPaths) * PoolSize + MaxCopies)
Inst == UNION {ArcPool(p) : p \in TagPaths} \cup BoxPool

VARIABLES
    directories, \* VirtualTagDirectory::directories: index -> root
    strategy,    \* CachingTagTree::strategy
    files,       \* files[r][p]: content of p's file under root r
    dirs,        \* dirs[r]: the sub-directories existing under root r
    tag_cache,   \* CachingTagTree::tag_cache: path -> instance (or NoInst)
    heap,        \* heap[i]: the tag held by instance i
    handles,     \* shared handles the caller holds: [path, inst]
    copies,      \* private copies the caller holds (instances)
    last,        \* the last call, its result and its calls on the delegate
    threads,     \* threads[t]: where thread t stands in the call it makes
    tag_cache_lock, \* the thread holding the Mutex around tag_cache
    tag_locks,   \* tag_locks[i]: the thread holding the Mutex of instance i
    iterator     \* the TagTreeTagIterator the caller has

vars == <<directories, strategy, files, dirs, tag_cache, heap, handles, copies, last,
          threads, tag_cache_lock, tag_locks, iterator>>

threadVars == <<threads, tag_cache_lock, tag_locks>>

\* ------------------------------------------------- VirtualTagDirectory
NoRoot == 0 - 1

\* self.directories.len()
DirLen(ds) == Cardinality(DOMAIN ds)

\* for index in 0..self.directories.len(): the first root where the file exists
RECURSIVE PathForTagFrom(_, _, _, _)
PathForTagFrom(ds, f, p, index) ==
    IF index >= DirLen(ds) THEN NoRoot
    ELSE IF f[ds[index]][p] = NoFile THEN PathForTagFrom(ds, f, p, index + 1)
    ELSE index

\* The scan started from the last root: the priority order reversed.
RECURSIVE PathForTagBackFrom(_, _, _, _)
PathForTagBackFrom(ds, f, p, index) ==
    IF index < 0 THEN NoRoot
    ELSE IF f[ds[index]][p] = NoFile THEN PathForTagBackFrom(ds, f, p, index - 1)
    ELSE index

PathForTagReversed(ds, f, p) == PathForTagBackFrom(ds, f, p, DirLen(ds) - 1)

\* VirtualTagDirectory::path_for_tag: the index of the root, NoRoot for None
PathForTag(ds, f, p) == PathForTagFrom(ds, f, p, 0)

\* A result of an open: an error, or the tag read.
OpenOk(v) == [err |-> NoError, val |-> v]
OpenErr(e) == [err |-> e, val |-> NoValue]

\* VirtualTagDirectory::open_tag_copy: every result the call can have (the
\* read of an existing file may fail).
VirtualOpenTagCopy(ds, f, p) ==
    LET index == PathForTag(ds, f, p) IN
    IF index = NoRoot THEN {OpenErr(TagNotFound(p))}
    ELSE {OpenErr(FailedToReadFile), OpenOk(f[ds[index]][p])}

DirExists(d, r, dir) == dir = <<>> \/ dir \in d[r]

\* create_dir_all: the directory and every missing ancestor
RECURSIVE Ancestors(_)
Ancestors(dir) ==
    IF dir = <<>> THEN {} ELSE {dir} \cup Ancestors(SubSeq(dir, 1, Len(dir) - 1))

WriteResult(e, f, d) == [err |-> e, files |-> f, dirs |-> d, panicked |-> FALSE]
WritePanic(f, d) == [err |-> NoError, files |-> f, dirs |-> d, panicked |-> TRUE]

\* A write that always goes under the first root.
VirtualWriteTagRootZero(ds, f, d, p, v) ==
    IF DirLen(ds) = 0 THEN {WritePanic(f, d)} ELSE
    LET made == [d EXCEPT ![ds[0]] = @ \cup Ancestors(Parent(p))] IN
        (IF DirExists(d, ds[0], Parent(p)) THEN {}
         ELSE {WriteResult(FailedToWriteFile, f, d)})
        \cup {WriteResult(FailedToReadFile, f, made)}
        \cup {WriteResult(NoError, [f EXCEPT ![ds[0]][p] = v], made)}

\* VirtualTagDirectory::write_tag: every outcome the call can have.
VirtualWriteTag(ds, f, d, p, v) ==
    LET found == PathForTag(ds, f, p)
        r == IF found = NoRoot THEN ds[0] ELSE ds[found]
        made == [d EXCEPT ![r] = @ \cup Ancestors(Parent(p))]
    IN  \* self.directories[0] of an empty list: index out of bounds
        IF found = NoRoot /\ DirLen(ds) = 0 THEN {WritePanic(f, d)} ELSE
        \* create_dir_all fails (only a missing directory has to be made)
        (IF DirExists(d, r, Parent(p)) THEN {}
         ELSE {WriteResult(FailedToWriteFile, f, d)})
        \* write fails
        \cup {WriteResult(FailedToReadFile, f, made)}
        \* write succeeds
        \cup {WriteResult(NoError, [f EXCEPT ![r][p] = v], made)}

\* ------------------------------------------------------------- listings
TagItem(p) == [item_type |-> "Tag", path |-> p.path, tag_group |-> p.group]
DirItem(dir) == [item_type |-> "Directory", path |-> dir, tag_group |-> "none"]

\* The entries read_dir yields for `dir` under root r.
EntriesIn(f, d, r, dir) ==
    {DirItem(x) : x \in {y \in d[r] : Len(y) > 0 /\ SubSeq(y, 1, Len(y) - 1) = dir}}
    \cup {TagItem(p) : p \in {q \in TagPaths : Parent(q) = dir /\ f[r][q] # NoFile}}

\* read_dir yields the entries in an order the file system chooses.
Orderings(S) ==
    {s \in [1 .. Cardinality(S) -> S] : \A i, j \in 1 .. Cardinality(S) : s[i] = s[j] => i = j}

\* Vec::dedup_by: drops an element equal to the one kept just before it.
RECURSIVE DedupBy(_)
DedupBy(s) ==
    IF Len(s) <= 1 THEN s
    ELSE LET front == DedupBy(SubSeq(s, 1, Len(s) - 1)) IN
         IF s[Len(s)] = front[Len(front)] THEN front ELSE Append(front, s[Len(s)])

\* The merged entries of the roots from `index` on, before dedup_by.
RECURSIVE MergedFrom(_, _, _, _, _)
MergedFrom(ds, f, d, dir, index) ==
    IF index >= DirLen(ds) THEN {<<>>}
    ELSE IF ~DirExists(d, ds[index], dir) THEN MergedFrom(ds, f, d, dir, index + 1)
    ELSE {x \o rest : x \in Orderings(EntriesIn(f, d, ds[index], dir)),
                      rest \in MergedFrom(ds, f, d, dir, index + 1)}

ListNone == [some |-> FALSE, items |-> <<>>]
ListSome(items) == [some |-> TRUE, items |-> items]

\* VirtualTagDirectory::files_in_path: every list the call can return.
VirtualFilesInPath(ds, f, d, dir) ==
    IF \A index \in DOMAIN ds : ~DirExists(d, ds[index], dir) THEN {ListNone}
    ELSE {ListSome(DedupBy(m)) : m \in MergedFrom(ds, f, d, dir, 0)}

\* --------------------------------------------------------------- calls
\* What a call returned and which calls it made on the wrapped tree.
NoCall ==
    [op |-> "new", path |-> NoPath, dir |-> <<>>, val |-> NoValue,
     err |-> NoError,       \* the Err returned, NoError for Ok
     inst |-> NoInst,       \* the shared instance returned
     out |-> NoValue,       \* the tag returned by value
     some |-> FALSE,        \* an Option result is Some
     items |-> <<>>,        \* the Vec<TagTreeItem> returned
     errors |-> <<>>,       \* the Vec<(TagPath, Error)> returned
     opened |-> <<>>,       \* paths passed to inner.open_tag_copy, in order
     written |-> <<>>,      \* paths passed to inner.write_tag, in order
     panicked |-> FALSE,    \* the call panicked instead of returning
     args |-> <<>>,         \* the arguments of a call of a function
     ret |-> <<>>]          \* and the value it returned

Call(op, p) == [NoCall EXCEPT !.op = op, !.path = p]

Handle(p, i) == [path |-> p, inst |-> i]

\* Instances something refers to: the cache, a handle or a copy of the caller.
Live(c, hs, cs) ==
    ({c[p] : p \in TagPaths} \ {NoInst}) \cup {h.inst : h \in hs} \cup cs

\* Arc::new / Box::new: an instance nothing refers to.
Fresh(pool, c, hs, cs) ==
    CHOOSE i \in pool \ Live(c, hs, cs) : \A j \in pool \ Live(c, hs, cs) : i <= j

\* Instances nothing refers to any more are dropped.
Collect(h, c, hs, cs) ==
    [i \in Inst |-> IF i \in Live(c, hs, cs) THEN h[i] ELSE NoValue]

\* The caller keeps or drops the handle it was given.
KeepHandle(keep, p, i) == IF keep THEN handles \cup {Handle(p, i)} ELSE handles

CanKeepHandle(keep, p, i) ==
    keep => Cardinality(handles \cup {Handle(p, i)}) <= MaxHandles

\* ---------------------------------------------------------------- threads
Threads == 1 .. NumThreads
NoThread == 0
\* A Mutex whose holder panicked is poisoned: lock().unwrap() panics on it.
Poisoned == 0 - 1
NoHandle == Handle(NoPath, NoInst)

\* A thread outside any call, with the handle it keeps.
Idle(hd) ==
    [op |-> "idle", at |-> "idle", path |-> NoPath, val |-> NoValue,
     handle |-> hd, target |-> NoInst, todo |-> <<>>]

\* Mutex::new: nobody holds any lock, no thread has made a call.
NoThreads ==
    /\ threads = [t \in Threads |-> Idle(NoHandle)]
    /\ tag_cache_lock = NoThread
    /\ tag_locks = [i \in Inst |-> NoThread]

\* ------------------------------------------------------ the iterator
\* A TagTreeTagIterator: its stack of queues and its filter, and what it has
\* done so far. Every entry queued has a place: the place of the directory
\* entry it was listed for, then its index in that listing.
\*   places:  the place of every entry of the stack
\*   queued:  every place queued so far
\*   visited: the entries taken off the stack, in order, with their places
\*   queries: the calls of files_in_path made so far
EmptyIterator(filter) ==
    [stack |-> <<>>, filter |-> filter, places |-> <<>>, queued |-> {},
     visited |-> <<>>, queries |-> 0]

\* No iterator has been made.
NoIterator == EmptyIterator([filter |-> <<>>, group |-> "unfiltered"])

Panicked == last.panicked

TypeOK ==
    /\ \E n \in 0 .. NumRoots : directories \in [0 .. (n - 1) -> Roots]
    /\ strategy \in {"Instant", "Manual"}
    /\ files \in [Roots -> [TagPaths -> Contents]]
    /\ dirs \in [Roots -> SUBSET (DirPaths \ {<<>>})]
    /\ tag_cache \in [TagPaths -> Inst \cup {NoInst}]
    /\ heap \in [Inst -> Values \cup {NoValue}]
    /\ handles \subseteq [path : TagPaths, inst : Inst]
    /\ copies \subseteq BoxPool
    /\ Cardinality(handles) <= MaxHandles
    /\ Cardinality(copies) <= MaxCopies
    /\ DOMAIN threads = Threads
    /\ \A t \in Threads : threads[t].handle \in handles \cup {NoHandle}
    /\ tag_cache_lock \in Threads \cup {NoThread, Poisoned}
    /\ tag_locks \in [Inst -> Threads \cup {NoThread}]
    /\ iterator.queries \in Nat
    /\ Len(iterator.places) = Len(iterator.stack)

\* ------------------------------------------------------------------ Init
\* VirtualTagDirectory::new: the first n roots, every one an existing directory
NewDirectories(n) == [index \in 0 .. (n - 1) |-> index]

\* The tag directories hold any files before the trees are constructed; the
\* file a root holds for a path carries a value that tells the roots apart.
InitValue(r) == (r % MaxValue) + 1

\* The file systems with files under the roots of ds only.
InitFileSystem(ds) ==
    /\ files \in [Roots -> [TagPaths -> Contents]]
    /\ dirs \in [Roots -> SUBSET {<<"d">>}]
    /\ \A r \in Roots, p \in TagPaths :
        /\ files[r][p] \in {NoFile, InitValue(r)}
        /\ files[r][p] # NoFile => DirExists(dirs, r, Parent(p))
        /\ (\A index \in DOMAIN ds : ds[index] # r) =>
                files[r][p] = NoFile /\ dirs[r] = {}

\* CachingTagTree::new
NewCache ==
    /\ tag_cache = [p \in TagPaths |-> NoInst]
    /\ heap = [i \in Inst |-> NoValue]
    /\ handles = {}
    /\ copies = {}
    /\ last = NoCall
    /\ NoThreads
    /\ iterator = NoIterator

\* A CachingTagTree over a VirtualTagDirectory of one root.
Init ==
    /\ directories = NewDirectories(1)
    /\ strategy \in {"Instant", "Manual"}
    /\ InitFileSystem(directories)
    /\ NewCache

\* ------------------------------------------------------- CachingTagTree
\* cache.get(path): the cached instance, NoInst for None
CacheGet(c, p) == c[p]

\* if let Some(n) = cache.get(path) { return Ok(n.clone()) }
OpenHit(c, h, hs, cs, p) ==
    {[err |-> NoError, inst |-> CacheGet(c, p), cache |-> c, heap |-> h,
      opened |-> <<>>]}

\* A miss whose insert leaves the new entry alone in the cache.
OpenMissSingleEntry(ds, c, h, hs, cs, f, p) ==
    {IF r.err # NoError
     THEN [err |-> r.err, inst |-> NoInst, cache |-> c, heap |-> h,
           opened |-> <<p>>]
     ELSE LET i == Fresh(ArcPool(p), [c EXCEPT ![p] = NoInst], hs, cs) IN
          [err |-> NoError, inst |-> i,
           cache |-> [q \in TagPaths |-> IF q = p THEN i ELSE NoInst],
           heap |-> [h EXCEPT ![i] = r.val], opened |-> <<p>>]
     : r \in VirtualOpenTagCopy(ds, f, p)}

\* self.inner.open_tag_copy(path)?, then the insert of a new Arc
OpenMiss(ds, c, h, hs, cs, f, p) ==
    {IF r.err # NoError
     THEN [err |-> r.err, inst |-> NoInst, cache |-> c, heap |-> h,
           opened |-> <<p>>]
     ELSE LET i == Fresh(ArcPool(p), [c EXCEPT ![p] = NoInst], hs, cs) IN
          [err |-> NoError, inst |-> i, cache |-> [c EXCEPT ![p] = i],
           heap |-> [h EXCEPT ![i] = r.val], opened |-> <<p>>]
     : r \in VirtualOpenTagCopy(ds, f, p)}

\* An open_tag_shared that never looks the path up in the cache.
OpenSharedUncached(ds, c, h, hs, cs, f, p) == OpenMiss(ds, c, h, hs, cs, f, p)

\* CachingTagTree::open_tag_shared, with the cache the call leaves:
\* [err, inst, cache, heap, opened].
OpenSharedResults(ds, c, h, hs, cs, f, p) ==
    IF CacheGet(c, p) # NoInst THEN OpenHit(c, h, hs, cs, p)
    ELSE OpenMiss(ds, c, h, hs, cs, f, p)

OpenTagShared(p, keep) ==
    /\ ~Panicked
    /\ \E r \in OpenSharedResults(directories, tag_cache, heap, handles, copies, files, p) :
        /\ r.err = NoError => CanKeepHandle(keep, p, r.inst)
        /\ handles' = IF r.err = NoError THEN KeepHandle(keep, p, r.inst) ELSE handles
        /\ tag_cache' = r.cache
        /\ heap' = Collect(r.heap, r.cache, handles', copies)
        /\ last' = [Call("open_tag_shared", p) EXCEPT
                        !.err = r.err, !.inst = r.inst, !.opened = r.opened]
    /\ UNCHANGED <<iterator, threadVars, directories, strategy, files, dirs, copies>>

\* A copy that is the cached instance itself.
CloneShallow(fresh, shared) == shared

\* tag.lock().unwrap().clone_inner(): the copy is a new instance
CloneInner(fresh, shared) == fresh

\* CachingTagTree::open_tag_copy: open_tag_shared, then a copy of the tag
OpenTagCopy(p, keep) ==
    /\ ~Panicked
    /\ keep => Cardinality(copies) < MaxCopies
    /\ \E r \in OpenSharedResults(directories, tag_cache, heap, handles, copies, files, p) :
        /\ tag_cache' = r.cache
        /\ handles' = handles
        /\ IF r.err # NoError
           THEN /\ copies' = copies
                /\ heap' = Collect(r.heap, r.cache, handles, copies)
                /\ last' = [Call("open_tag_copy", p) EXCEPT
                                !.err = r.err, !.opened = r.opened]
           ELSE LET v == r.heap[r.inst] IN
                IF ~keep
                THEN /\ copies' = copies
                     /\ heap' = Collect(r.heap, r.cache, handles, copies)
                     /\ last' = [Call("open_tag_copy", p) EXCEPT
                                    !.out = v, !.opened = r.opened]
                ELSE LET j == CloneInner(Fresh(BoxPool, r.cache, handles, copies), r.inst) IN
                     /\ copies' = copies \cup {j}
                     /\ heap' = Collect([r.heap EXCEPT ![j] = v], r.cache,
                                        handles, copies')
                     /\ last' = [Call("open_tag_copy", p) EXCEPT
                                    !.out = v, !.opened = r.opened, !.inst = j]
    /\ UNCHANGED <<iterator, threadVars, directories, strategy, files, dirs>>

\* CachingTagTree::get
Get(p, keep) ==
    /\ ~Panicked
    /\ LET i == CacheGet(tag_cache, p) IN
        /\ i # NoInst => CanKeepHandle(keep, p, i)
        /\ handles' = IF i # NoInst THEN KeepHandle(keep, p, i) ELSE handles
        /\ last' = [Call("get", p) EXCEPT !.some = (i # NoInst), !.inst = i]
    /\ UNCHANGED <<iterator, threadVars, directories, strategy, files, dirs, tag_cache, heap, copies>>

\* A write_tag that forwards whatever the strategy is.
ForwardsAlways(s) == TRUE

\* if self.strategy == CachingTagTreeWriteStrategy::Instant
ForwardsWrite(s) == s = "Instant"

\* A write_tag that drops the delegate's Err and goes on.
PropagatesNever(e) == FALSE

\* self.inner.write_tag(path, tag)?: an Err returns from write_tag
Propagates(e) == e # NoError

\* self.tag_cache.lock().unwrap().insert(path, Arc::new(Mutex::new(clone)))
CacheInsert(c, h, hs, cs, p, v) ==
    LET i == Fresh(ArcPool(p), [c EXCEPT ![p] = NoInst], hs, cs) IN
    [cache |-> [c EXCEPT ![p] = i], heap |-> [h EXCEPT ![i] = v]]

\* CachingTagTree::write_tag: [err, cache, heap, files, dirs, written, panicked]
WriteTagResults(s, ds, c, h, hs, cs, f, d, p, v) ==
    LET cached == CacheInsert(c, h, hs, cs, p, v) IN
    IF ForwardsWrite(s)
    THEN {IF w.panicked \/ Propagates(w.err)
          THEN [err |-> w.err, cache |-> c, heap |-> h, files |-> w.files,
                dirs |-> w.dirs, written |-> <<p>>, panicked |-> w.panicked]
          ELSE [err |-> NoError, cache |-> cached.cache, heap |-> cached.heap,
                files |-> w.files, dirs |-> w.dirs, written |-> <<p>>,
                panicked |-> FALSE]
          : w \in VirtualWriteTag(ds, f, d, p, v)}
    ELSE {[err |-> NoError, cache |-> cached.cache, heap |-> cached.heap,
           files |-> f, dirs |-> d, written |-> <<>>, panicked |-> FALSE]}

WriteTag(p, v) ==
    /\ ~Panicked
    /\ \E r \in WriteTagResults(strategy, directories, tag_cache, heap, handles,
                                copies, files, dirs, p, v) :
        /\ tag_cache' = r.cache
        /\ heap' = Collect(r.heap, r.cache, handles, copies)
        /\ files' = r.files
        /\ dirs' = r.dirs
        /\ last' = [Call("write_tag", p) EXCEPT
                        !.val = v, !.err = r.err, !.written = r.written,
                        !.panicked = r.panicked]
    /\ UNCHANGED <<iterator, threadVars, directories, strategy, handles, copies>>

\* Arc::into_inner(tag): Some only for the last reference to the instance
IntoInner(hs, i) == \A h \in hs : h.inst # i

\* CachingTagTree::evict
Evict(p) ==
    /\ ~Panicked
    /\ LET i == CacheGet(tag_cache, p) IN
        /\ tag_cache' = [tag_cache EXCEPT ![p] = NoInst]
        /\ heap' = Collect(heap, tag_cache', handles, copies)
        /\ last' = IF i = NoInst THEN Call("evict", p)
                   ELSE IF IntoInner(handles, i)
                   THEN [Call("evict", p) EXCEPT !.some = TRUE, !.out = heap[i]]
                   ELSE [Call("evict", p) EXCEPT !.panicked = TRUE]
    /\ UNCHANGED <<iterator, threadVars, directories, strategy, files, dirs, handles, copies>>

\* A commit that takes a path that is not cached for done.
CommitResultsLenient(ds, c, h, f, d, p) ==
    IF CacheGet(c, p) = NoInst
    THEN {[err |-> NoError, files |-> f, dirs |-> d, written |-> <<>>,
           panicked |-> FALSE]}
    ELSE {[err |-> w.err, files |-> w.files, dirs |-> w.dirs, written |-> <<p>>,
           panicked |-> w.panicked]
          : w \in VirtualWriteTag(ds, f, d, p, h[CacheGet(c, p)])}

\* CachingTagTree::commit: [err, files, dirs, written, panicked]
CommitResults(ds, c, h, f, d, p) ==
    IF CacheGet(c, p) = NoInst
    THEN {[err |-> TagNotFound(p), files |-> f, dirs |-> d, written |-> <<>>,
           panicked |-> FALSE]}
    ELSE {[err |-> w.err, files |-> w.files, dirs |-> w.dirs, written |-> <<p>>,
           panicked |-> w.panicked]
          : w \in VirtualWriteTag(ds, f, d, p, h[CacheGet(c, p)])}

Commit(p) ==
    /\ ~Panicked
    /\ \E r \in CommitResults(directories, tag_cache, heap, files, dirs, p) :
        /\ files' = r.files
        /\ dirs' = r.dirs
        /\ last' = [Call("commit", p) EXCEPT
                        !.err = r.err, !.written = r.written, !.panicked = r.panicked]
    /\ UNCHANGED <<iterator, threadVars, directories, strategy, tag_cache, heap, handles, copies>>

\* match self.inner.write_tag(k, ..): Ok(_) => (), Err(e) => errors.push((k, e))
Collected(errors, k, e) ==
    IF e = NoError THEN errors ELSE Append(errors, [path |-> k, err |-> e])

\* A commit_all that returns at the first Err (self.inner.write_tag(..)?).
RECURSIVE CommitAllStopping(_, _, _, _, _, _, _, _, _)
CommitAllStopping(ds, c, h, f, d, order, i, errors, written) ==
    IF i > Len(order) \/ Len(errors) > 0
    THEN {[errors |-> errors, files |-> f, dirs |-> d, written |-> written,
           panicked |-> FALSE]}
    ELSE UNION {
        CommitAllStopping(ds, c, h, w.files, w.dirs, order, i + 1,
                          Collected(errors, order[i], w.err),
                          Append(written, order[i]))
        : w \in VirtualWriteTag(ds, f, d, order[i], h[c[order[i]]])}

\* for (k, v) in cache.iter(): every entry from the i-th of `order` on is
\* written; an Err is pushed and the loop goes on.
RECURSIVE CommitAllFrom(_, _, _, _, _, _, _, _, _)
CommitAllFrom(ds, c, h, f, d, order, i, errors, written) ==
    IF i > Len(order)
    THEN {[errors |-> errors, files |-> f, dirs |-> d, written |-> written,
           panicked |-> FALSE]}
    ELSE UNION {
        IF w.panicked
        THEN {[errors |-> errors, files |-> w.files, dirs |-> w.dirs,
               written |-> Append(written, order[i]), panicked |-> TRUE]}
        ELSE CommitAllFrom(ds, c, h, w.files, w.dirs, order, i + 1,
                           Collected(errors, order[i], w.err),
                           Append(written, order[i]))
        : w \in VirtualWriteTag(ds, f, d, order[i], h[c[order[i]]])}

\* CachingTagTree::commit_all; the HashMap iterates in an unspecified order
CommitAll ==
    /\ ~Panicked
    /\ \E order \in Orderings({p \in TagPaths : tag_cache[p] # NoInst}) :
       \E r \in CommitAllFrom(directories, tag_cache, heap, files, dirs, order,
                              1, <<>>, <<>>) :
        /\ files' = r.files
        /\ dirs' = r.dirs
        /\ last' = [Call("commit_all", NoPath) EXCEPT
                        !.errors = r.errors, !.written = r.written,
                        !.panicked = r.panicked]
    /\ UNCHANGED <<iterator, threadVars, directories, strategy, tag_cache, heap, handles, copies>>

\* A listing that adds the cached tags of the directory to the delegate's.
CachingFilesInPathMerged(ds, c, f, d, dir) ==
    {ListSome(l.items \o cachedItems) :
        l \in VirtualFilesInPath(ds, f, d, dir),
        cachedItems \in Orderings({TagItem(p) :
            p \in {q \in TagPaths : c[q] # NoInst /\ Parent(q) = dir}})}

\* CachingTagTree::files_in_path: self.inner.files_in_path(path)
CachingFilesInPath(ds, c, f, d, dir) == VirtualFilesInPath(ds, f, d, dir)

FilesInPath(dir) ==
    /\ ~Panicked
    /\ \E l \in CachingFilesInPath(directories, tag_cache, files, dirs, dir) :
        last' = [Call("files_in_path", NoPath) EXCEPT
                    !.dir = dir, !.some = l.some, !.items = l.items]
    /\ UNCHANGED <<iterator, threadVars, directories, strategy, files, dirs, tag_cache, heap, handles, copies>>

\* ---------------------------------------------------------- the caller
\* handle.lock().unwrap(): the caller changes the tag behind a handle
MutateHandle(hd, v) ==
    /\ ~Panicked
    /\ hd \in handles
    /\ heap[hd.inst] # v
    /\ heap' = [heap EXCEPT ![hd.inst] = v]
    /\ last' = [Call("handle.mutate", hd.path) EXCEPT !.inst = hd.inst, !.val = v]
    /\ UNCHANGED <<iterator, threadVars, directories, strategy, files, dirs, tag_cache, handles, copies>>

\* The caller changes a copy open_tag_copy gave it.
MutateCopy(j, v) ==
    /\ ~Panicked
    /\ j \in copies
    /\ heap[j] # v
    /\ heap' = [heap EXCEPT ![j] = v]
    /\ last' = [Call("copy.mutate", NoPath) EXCEPT !.inst = j, !.val = v]
    /\ UNCHANGED <<iterator, threadVars, directories, strategy, files, dirs, tag_cache, handles, copies>>

\* The caller drops a handle (the Arc's count goes down).
DropHandle(hd) ==
    /\ ~Panicked
    /\ hd \in handles
    /\ handles' = handles \ {hd}
    /\ heap' = Collect(heap, tag_cache, handles', copies)
    /\ last' = Call("handle.drop", NoPath)
    /\ UNCHANGED <<iterator, threadVars, directories, strategy, files, dirs, tag_cache, copies>>

\* The caller drops a copy.
DropCopy(j) ==
    /\ ~Panicked
    /\ j \in copies
    /\ copies' = copies \ {j}
    /\ heap' = Collect(heap, tag_cache, handles, copies')
    /\ last' = Call("copy.drop", NoPath)
    /\ UNCHANGED <<iterator, threadVars, directories, strategy, files, dirs, tag_cache, handles>>

Next ==
    \/ \E p \in TagPaths, keep \in BOOLEAN : OpenTagShared(p, keep)
    \/ \E p \in TagPaths, keep \in BOOLEAN : OpenTagCopy(p, keep)
    \/ \E p \in TagPaths, keep \in BOOLEAN : Get(p, keep)
    \/ \E p \in TagPaths, v \in Values : WriteTag(p, v)
    \/ \E p \in TagPaths : Evict(p)
    \/ \E p \in TagPaths : Commit(p)
    \/ CommitAll
    \/ \E dir \in DirPaths : FilesInPath(dir)
    \/ \E hd \in handles, v \in Values : MutateHandle(hd, v)
    \/ \E j \in copies, v \in Values : MutateCopy(j, v)
    \/ \E hd \in handles : DropHandle(hd)
    \/ \E j \in copies : DropCopy(j)

Spec == Init /\ [][Next]_vars

\* ------------------------------------------------------------- TagFilter
\* Strings are sequences of characters.
HALO_PATH_SEPARATOR == "\\"
NoGroup == "none"
TagGroups == {"bitmap", "weapon"}

\* The name of a group, as it stands in a file's extension.
GroupName(g) ==
    IF g = "bitmap" THEN <<"b", "i", "t", "m", "a", "p">>
    ELSE <<"w", "e", "a", "p", "o", "n">>

\* TagPath::path(): the components joined by the separator
RECURSIVE PathStr(_)
PathStr(components) ==
    IF Len(components) = 0 THEN <<>>
    ELSE IF Len(components) = 1 THEN <<components[1]>>
    ELSE <<components[1], HALO_PATH_SEPARATOR>> \o PathStr(Tail(components))

\* TagPath::to_internal_path(): the path, a dot and the group's name
ToInternalPath(p) == PathStr(p.path) \o <<".">> \o GroupName(p.group)

\* TagFilter::new: separators become the canonical separator
NewFilter(filter, group) ==
    [filter |-> [i \in 1 .. Len(filter) |->
                    IF filter[i] = "/" THEN HALO_PATH_SEPARATOR ELSE filter[i]],
     group |-> group]

\* while filter.chars().next() == Some('*') { filter = &filter[1..] }
RECURSIVE SkipStars(_)
SkipStars(filter) ==
    IF filter # <<>> /\ Head(filter) = "*" THEN SkipStars(Tail(filter)) ELSE filter

\* TagFilter::filter_passes_raw
RECURSIVE FilterPassesRaw(_, _)
FilterPassesRaw(filter, what) ==
    IF filter = <<>> /\ what = <<>> THEN TRUE
    ELSE IF filter = <<>> \/ what = <<>> THEN FALSE
    ELSE LET filter_first == Head(filter)
             what_first == Head(what)
             f == Tail(filter)
             w == Tail(what)
         IN  IF filter_first = "?" \/ filter_first = what_first
             THEN FilterPassesRaw(f, w)
             ELSE IF filter_first = "*"
             THEN IF SkipStars(f) = <<>> THEN TRUE
                  \* while !what.is_empty(): every suffix of what that is not empty
                  ELSE \E k \in 1 .. Len(w) :
                            FilterPassesRaw(SkipStars(f), SubSeq(w, k, Len(w)))
             ELSE FALSE

\* TagFilter::passes
Passes(tf, p) ==
    IF tf.group # NoGroup
    THEN IF p.group # tf.group THEN FALSE
         ELSE FilterPassesRaw(tf.filter, PathStr(p.path))
    ELSE FilterPassesRaw(tf.filter, ToInternalPath(p))

\* The strings over an alphabet, up to a length.
RECURSIVE Strings(_, _)
Strings(alphabet, n) ==
    IF n = 0 THEN {<<>>}
    ELSE Strings(alphabet, n - 1)
         \cup {Append(s, c) : s \in Strings(alphabet, n - 1), c \in alphabet}

\* The patterns and the candidates the matcher is called with.
Patterns == Strings({"a", "b", "?", "*"}, MaxPattern)
Candidates == Strings({"a", "b"}, MaxWhat)

\* The filters passes is called with, and the paths: those of the tags and
\* one of another group.
TagW == [path |-> <<"a">>, group |-> "weapon"]
FilterPaths == TagPaths \cup {TagW}
FilterStrings ==
    {<<"*">>, <<"a">>, <<"a", "*">>, <<"?">>, <<"d", "/", "*">>, <<"d", "\\", "b">>,
     <<"*", ".", "b", "i", "t", "m", "a", "p">>,
     <<"a", ".", "b", "i", "t", "m", "a", "p">>}
Filters == {NewFilter(f, g) : f \in FilterStrings, g \in TagGroups \cup {NoGroup}}

\* ------------------------------------------------- TagTreeTagIterator
NoFilter == [filter |-> <<>>, group |-> "unfiltered"]

\* TagTreeItem::tag_path
ItemTagPath(item) == [path |-> item.path, group |-> item.tag_group]

\* TagTreeItem::files of an item of a VirtualTagDirectory: None for a tag
ItemFiles(ds, f, d, item) ==
    IF item.item_type = "Directory" THEN VirtualFilesInPath(ds, f, d, item.path)
    ELSE {ListNone}

\* TagTreeTagIterator::next called until it returns None: every sequence of
\* tag paths the iterator can yield from a stack (a Vec of VecDeques).
RECURSIVE IterateFrom(_, _, _, _, _)
IterateFrom(ds, f, d, stack, filter) ==
    IF stack = <<>> THEN {<<>>}
    ELSE LET top == stack[Len(stack)]
             below == SubSeq(stack, 1, Len(stack) - 1)
         IN  \* last.pop_front() is None: self.stack.pop()
             IF top = <<>> THEN IterateFrom(ds, f, d, below, filter)
             ELSE LET first == Head(top)
                      popped == Append(below, Tail(top))
                  IN  IF first.item_type = "Directory"
                      THEN UNION {IF n.some
                                  THEN IterateFrom(ds, f, d, Append(popped, n.items), filter)
                                  ELSE IterateFrom(ds, f, d, popped, filter)
                                  : n \in ItemFiles(ds, f, d, first)}
                      ELSE IF filter # NoFilter /\ ~Passes(filter, ItemTagPath(first))
                      THEN IterateFrom(ds, f, d, popped, filter)
                      ELSE {<<ItemTagPath(first)>> \o found :
                                found \in IterateFrom(ds, f, d, popped, filter)}

\* iterate_through_all_tags: the stack holds the files of the root, if any
IterateThroughAllTags(ds, f, d, filter) ==
    UNION {IF n.some THEN IterateFrom(ds, f, d, <<n.items>>, filter)
           ELSE IterateFrom(ds, f, d, <<>>, filter)
           : n \in ItemFiles(ds, f, d, DirItem(<<>>))}

\* The filters a traversal is made with.
IterateFilters ==
    {NoFilter, NewFilter(<<"?">>, "bitmap"), NewFilter(<<"d", "/", "?">>, "bitmap"),
     NewFilter(<<"?">>, "weapon")}

\* ------------------------------------- a VirtualTagDirectory on its own
cacheVars == <<strategy, tag_cache, heap, handles, copies>>

\* VirtualTagDirectory::open_tag_copy
VirtualOpen(p) ==
    /\ ~Panicked
    /\ \E r \in VirtualOpenTagCopy(directories, files, p) :
        last' = [Call("virtual.open_tag_copy", p) EXCEPT !.err = r.err, !.out = r.val]
    /\ UNCHANGED <<iterator, threadVars, directories, files, dirs, cacheVars>>

\* VirtualTagDirectory::write_tag
VirtualWrite(p, v) ==
    /\ ~Panicked
    /\ \E w \in VirtualWriteTag(directories, files, dirs, p, v) :
        /\ files' = w.files
        /\ dirs' = w.dirs
        /\ last' = [Call("virtual.write_tag", p) EXCEPT
                        !.val = v, !.err = w.err, !.panicked = w.panicked]
    /\ UNCHANGED <<iterator, threadVars, directories, cacheVars>>

\* VirtualTagDirectory::files_in_path
VirtualList(dir) ==
    /\ ~Panicked
    /\ \E l \in VirtualFilesInPath(directories, files, dirs, dir) :
        last' = [Call("virtual.files_in_path", NoPath) EXCEPT
                    !.dir = dir, !.some = l.some, !.items = l.items]
    /\ UNCHANGED <<iterator, threadVars, directories, files, dirs, cacheVars>>

\* iterate_through_all_tags over the VirtualTagDirectory, drained
VirtualIterate(filter) ==
    /\ ~Panicked
    /\ \E found \in IterateThroughAllTags(directories, files, dirs, filter) :
        last' = [Call("iterate_through_all_tags", NoPath) EXCEPT
                    !.args = filter, !.ret = found]
    /\ UNCHANGED <<iterator, threadVars, directories, files, dirs, cacheVars>>

\* VirtualTagDirectory::new over any list of existing directories
InitOverlay ==
    /\ \E n \in 0 .. NumRoots : directories = NewDirectories(n)
    /\ strategy = "Manual"
    /\ InitFileSystem(directories)
    /\ NewCache

NextOverlay ==
    \/ \E p \in TagPaths : VirtualOpen(p)
    \/ \E p \in TagPaths, v \in Values : VirtualWrite(p, v)
    \/ \E dir \in DirPaths : VirtualList(dir)
    \/ \E filter \in IterateFilters : VirtualIterate(filter)

SpecOverlay == InitOverlay /\ [][NextOverlay]_vars

\* --------------------------------------- TagTreeTagIterator, call by call
\* The places of the entries of a listing made for the entry at `place`.
PlacesOf(place, items) == [k \in 1 .. Len(items) |-> Append(place, k)]

\* self.stack.push(n.into())
Push(it, place, items) ==
    [it EXCEPT !.stack = Append(@, items),
               !.places = Append(@, PlacesOf(place, items)),
               !.queued = @ \cup {Append(place, k) : k \in 1 .. Len(items)}]

\* The iterator has called files_in_path once more.
Queried(it) == [it EXCEPT !.queries = @ + 1]

\* What a pass of the loop of next ends with: `continue`, or a return of
\* None or of Some(found).
Continue(it) == [it |-> it, returned |-> FALSE, some |-> FALSE, found |-> NoPath]
ReturnNone(it) == [it |-> it, returned |-> TRUE, some |-> FALSE, found |-> NoPath]
ReturnSome(it, found) == [it |-> it, returned |-> TRUE, some |-> TRUE, found |-> found]

\* A pass that queues the files of a directory below the queues there are.
NextLoopBreadthFirst(ds, f, d, it) ==
    IF it.stack = <<>> THEN {ReturnNone(it)}
    ELSE LET n == Len(it.stack) IN
         IF it.stack[n] = <<>>
         THEN {Continue([it EXCEPT !.stack = SubSeq(@, 1, n - 1),
                                   !.places = SubSeq(@, 1, n - 1)])}
         ELSE LET first == Head(it.stack[n])
                  place == Head(it.places[n])
                  popped == [it EXCEPT
                                !.stack[n] = Tail(@), !.places[n] = Tail(@),
                                !.visited = Append(@, [place |-> place, item |-> first])]
              IN  IF first.item_type = "Directory"
                  THEN {IF l.some
                        THEN Continue(Queried(
                                [popped EXCEPT
                                    !.stack = <<l.items>> \o @,
                                    !.places = <<PlacesOf(place, l.items)>> \o @,
                                    !.queued = @ \cup {Append(place, k) :
                                                        k \in 1 .. Len(l.items)}]))
                        ELSE Continue(Queried(popped))
                        : l \in ItemFiles(ds, f, d, first)}
                  ELSE IF it.filter # NoFilter /\ ~Passes(it.filter, ItemTagPath(first))
                  THEN {Continue(popped)}
                  ELSE {ReturnSome(popped, ItemTagPath(first))}

\* A pass that starts over from the root when the stack is empty.
NextLoopRestarting(ds, f, d, it) ==
    IF it.stack = <<>>
    THEN {IF l.some THEN Continue(Queried(Push(it, <<>>, l.items)))
          ELSE ReturnNone(Queried(it))
          : l \in ItemFiles(ds, f, d, DirItem(<<>>))}
    ELSE LET n == Len(it.stack) IN
         IF it.stack[n] = <<>>
         THEN {Continue([it EXCEPT !.stack = SubSeq(@, 1, n - 1),
                                   !.places = SubSeq(@, 1, n - 1)])}
         ELSE LET first == Head(it.stack[n])
                  place == Head(it.places[n])
                  popped == [it EXCEPT
                                !.stack[n] = Tail(@), !.places[n] = Tail(@),
                                !.visited = Append(@, [place |-> place, item |-> first])]
              IN  IF first.item_type = "Directory"
                  THEN {IF l.some THEN Continue(Queried(Push(popped, place, l.items)))
                        ELSE Continue(Queried(popped))
                        : l \in ItemFiles(ds, f, d, first)}
                  ELSE IF it.filter # NoFilter /\ ~Passes(it.filter, ItemTagPath(first))
                  THEN {Continue(popped)}
                  ELSE {ReturnSome(popped, ItemTagPath(first))}

\* One pass of the loop of TagTreeTagIterator::next: every way it can end.
NextLoop(ds, f, d, it) ==
    \* let last = self.stack.last_mut()?
    IF it.stack = <<>> THEN {ReturnNone(it)}
    ELSE LET n == Len(it.stack) IN
         \* last.pop_front() is None: self.stack.pop(); continue
         IF it.stack[n] = <<>>
         THEN {Continue([it EXCEPT !.stack = SubSeq(@, 1, n - 1),
                                   !.places = SubSeq(@, 1, n - 1)])}
         ELSE LET first == Head(it.stack[n])
                  place == Head(it.places[n])
                  popped == [it EXCEPT
                                !.stack[n] = Tail(@), !.places[n] = Tail(@),
                                !.visited = Append(@, [place |-> place, item |-> first])]
              IN  \* a directory: its files, if any, are pushed; continue
                  IF first.item_type = "Directory"
                  THEN {IF l.some THEN Continue(Queried(Push(popped, place, l.items)))
                        ELSE Continue(Queried(popped))
                        : l \in ItemFiles(ds, f, d, first)}
                  \* a tag the filter does not pass: continue
                  ELSE IF it.filter # NoFilter /\ ~Passes(it.filter, ItemTagPath(first))
                  THEN {Continue(popped)}
                  ELSE {ReturnSome(popped, ItemTagPath(first))}

\* iterate_through_all_tags: a new iterator, once the one before is drained
\* and no call of next is under way
IteratorNew(filter) ==
    /\ iterator.stack = <<>>
    /\ last.op # "next.continue"
    /\ \E l \in ItemFiles(directories, files, dirs, DirItem(<<>>)) :
        iterator' = IF l.some
                    THEN Push(Queried(EmptyIterator(filter)), <<>>, l.items)
                    ELSE Queried(EmptyIterator(filter))
    /\ last' = [Call("iterate_through_all_tags", NoPath) EXCEPT !.args = filter]
    /\ UNCHANGED <<threadVars, directories, files, dirs, cacheVars>>

\* A pass of the loop of a call of next; the pass that returns ends the call.
IteratorNext ==
    /\ iterator # NoIterator
    /\ \E r \in NextLoop(directories, files, dirs, iterator) :
        /\ iterator' = r.it
        /\ last' = [Call(IF r.returned THEN "next" ELSE "next.continue", r.found)
                        EXCEPT !.some = r.some]
    /\ UNCHANGED <<threadVars, directories, files, dirs, cacheVars>>

\* The directories are shared: a write_tag of another VirtualTagDirectory
\* over the same roots takes effect while the iterator is in use.
OutsideWrite(p, v) ==
    /\ DirLen(directories) > 0
    /\ \E w \in VirtualWriteTag(directories, files, dirs, p, v) :
        /\ files' = w.files
        /\ dirs' = w.dirs
    /\ UNCHANGED <<iterator, threadVars, directories, cacheVars, last>>

NextIterator ==
    \/ \E filter \in IterateFilters : IteratorNew(filter)
    \/ IteratorNext
    \/ \E p \in TagPaths, v \in Values : OutsideWrite(p, v)

SpecIterator == InitOverlay /\ [][NextIterator]_vars

\* The caller goes on calling next.
SpecIteratorLive == SpecIterator /\ WF_vars(IteratorNext)

\* No tree is involved: an empty list of roots and an empty cache.
NoTree ==
    /\ directories = NewDirectories(0)
    /\ strategy = "Manual"
    /\ InitFileSystem(directories)
    /\ tag_cache = [p \in TagPaths |-> NoInst]
    /\ heap = [i \in Inst |-> NoValue]
    /\ handles = {}
    /\ copies = {}
    /\ NoThreads
    /\ iterator = NoIterator

\* The arguments a call is about to be made with.
Input(args) == [NoCall EXCEPT !.args = args]

\* A call of filter_passes_raw with the pattern and candidate drawn
FilterPassesRawCall ==
    /\ last.op = "new"
    /\ last.args.path = NoPath
    /\ last' = [Call("filter_passes_raw", NoPath) EXCEPT
                    !.args = last.args,
                    !.ret = FilterPassesRaw(last.args.filter, last.args.what)]
    /\ UNCHANGED <<iterator, threadVars, directories, files, dirs, cacheVars>>

\* A call of TagFilter::passes with the filter and path drawn
PassesCall ==
    /\ last.op = "new"
    /\ last.args.path # NoPath
    /\ last' = [Call("passes", last.args.path) EXCEPT
                    !.args = last.args,
                    !.ret = Passes([filter |-> last.args.filter,
                                    group |-> last.args.group], last.args.path)]
    /\ UNCHANGED <<iterator, threadVars, directories, files, dirs, cacheVars>>

\* Any pattern and candidate for the matcher, any filter and path for passes.
InitFilter ==
    /\ NoTree
    /\ \/ \E filter \in Patterns, what \in Candidates :
            last = Input([filter |-> filter, group |-> NoGroup,
                          what |-> what, path |-> NoPath])
       \/ \E tf \in Filters, p \in FilterPaths :
            last = Input([filter |-> tf.filter, group |-> tf.group,
                          what |-> <<>>, path |-> p])

NextFilter ==
    \/ FilterPassesRawCall
    \/ PassesCall

SpecFilter == InitFilter /\ [][NextFilter]_vars

\* --------------------------------------------------------------- TagFile
\* A u32 is a pair of 16-bit words, the high one first.
U32(hi, lo) == <<hi, lo>>

IGNORED_CRC32 == U32(65535, 65535)
BLAM_FOURCC == U32(25196, 24941)
HeaderSize == 64

TagParseFailure == Error("TagParseFailure", NoPath)
ChecksumMismatch == Error("ChecksumMismatch", NoPath)
TagHeaderGroupTypeMismatch == Error("TagHeaderGroupTypeMismatch", NoPath)
TagHeaderGroupVersionMismatch == Error("TagHeaderGroupVersionMismatch", NoPath)

\* The types a tag file is written from and read as: PrimaryTagStruct::group()
\* and PrimaryTagStruct::version().
TagTypes == [group : TagGroups, version : 1 .. MaxVersion]

\* CRC32::update / CRC32::crc over the bytes given.
RECURSIVE Crc32From(_, _)
Crc32From(crc, bytes) ==
    IF bytes = <<>> THEN crc
    ELSE Crc32From(U32((crc[1] * 31 + crc[2] + Head(bytes)) % 65536,
                       ((crc[2] * 33) + Head(bytes) + 1) % 65536), Tail(bytes))

Crc32(bytes) == Crc32From(U32(65535, 65535), bytes)

\* T::write_to_tag_file and T::read_from_tag_file of a tag holding one 16-bit
\* field, written high byte first.
WritePayload(x) == <<x \div 256, x % 256>>
ReadPayload(data) == data[1] * 256 + data[2]

\* The header a default TagFileHeader is.
NullId == U32(65535, 65535)
DefaultHeader ==
    [id |-> NullId, string |-> <<>>, group |-> NoGroup, crc32 |-> U32(0, 0),
     header_size |-> U32(0, 0), padding |-> 0, version |-> 0, u16_255 |-> 0,
     blam_fourcc |-> U32(0, 0)]

\* The offsets of the fields in the 0x40 bytes of a header.
HeaderOffsets == {0, 4, 36, 40, 44, 48, 56, 58, 60}

\* TagFileHeader::write: the bytes of a header, field by field
WriteHeader(h) ==
    [at \in HeaderOffsets |->
        CASE at = 0 -> IF h.id = NullId THEN U32(0, 0) ELSE h.id
          [] at = 4 -> h.string
          [] at = 36 -> h.group
          [] at = 40 -> h.crc32
          [] at = 44 -> h.header_size
          [] at = 48 -> h.padding
          [] at = 56 -> h.version
          [] at = 58 -> h.u16_255
          [] at = 60 -> h.blam_fourcc]

\* TagFileHeader::read
ReadHeader(bytes) ==
    [id |-> IF bytes[0] = U32(0, 0) THEN NullId ELSE bytes[0],
     string |-> bytes[4], group |-> bytes[36], crc32 |-> bytes[40],
     header_size |-> bytes[44], padding |-> bytes[48], version |-> bytes[56],
     u16_255 |-> bytes[58], blam_fourcc |-> bytes[60]]

\* TagFileHeader::validate
Validate(header) ==
    IF /\ header.blam_fourcc = BLAM_FOURCC
       /\ header.u16_255 = 255
       /\ header.header_size = U32(0, HeaderSize)
    THEN NoError ELSE TagParseFailure

\* TagFileHeader::verify_group_matches
VerifyGroupMatches(header, T) ==
    IF header.group # T.group THEN TagHeaderGroupTypeMismatch
    ELSE IF header.version # T.version THEN TagHeaderGroupVersionMismatch
    ELSE NoError

\* A tag file: the header's bytes and the bytes after the header.
TagFileOf(header, data) == [header |-> WriteHeader(header), data |-> data]

\* An encoder that leaves the checksum of the default header in place.
ToTagFileNoCrc(tag_data, T) ==
    TagFileOf([DefaultHeader EXCEPT
                    !.blam_fourcc = BLAM_FOURCC, !.group = T.group,
                    !.header_size = U32(0, HeaderSize), !.version = T.version,
                    !.u16_255 = 255],
              WritePayload(tag_data))

\* TagFile::to_tag_file
ToTagFile(tag_data, T) ==
    LET data == WritePayload(tag_data)
        new_header == [DefaultHeader EXCEPT
                            !.blam_fourcc = BLAM_FOURCC,
                            !.crc32 = Crc32(data),
                            !.group = T.group,
                            !.header_size = U32(0, HeaderSize),
                            !.version = T.version,
                            !.u16_255 = 255]
    IN  TagFileOf(new_header, data)

\* A check that takes the disable value for a checksum like any other.
ValidateCrc32NoSentinel(header, data_after_header, strictness) ==
    IF strictness = "Strict" /\ Crc32(data_after_header) # header.crc32
    THEN ChecksumMismatch ELSE NoError

\* TagFile::validate_crc32
ValidateCrc32(header, data_after_header, strictness) ==
    LET some == header.crc32 # IGNORED_CRC32
        actual_crc32 == Crc32(data_after_header)
    IN  IF strictness = "Strict" /\ some /\ actual_crc32 # header.crc32
        THEN ChecksumMismatch ELSE NoError

\* A loader that checks the checksum before the header's structure.
LoadHeaderAndDataCrcFirst(file, strictness) ==
    LET header == ReadHeader(file.header) IN
    IF ValidateCrc32(header, file.data, strictness) # NoError
    THEN ValidateCrc32(header, file.data, strictness)
    ELSE Validate(header)

\* TagFile::load_header_and_data: the error, NoError for Ok
LoadHeaderAndData(file, strictness) ==
    LET header == ReadHeader(file.header) IN
    IF Validate(header) # NoError THEN Validate(header)
    ELSE ValidateCrc32(header, file.data, strictness)

\* TagFile::read_tag_from_file_buffer
ReadTagFromFileBuffer(file, strictness, T) ==
    LET header == ReadHeader(file.header) IN
    IF LoadHeaderAndData(file, strictness) # NoError
    THEN OpenErr(LoadHeaderAndData(file, strictness))
    ELSE IF VerifyGroupMatches(header, T) # NoError
    THEN OpenErr(VerifyGroupMatches(header, T))
    ELSE OpenOk(ReadPayload(file.data))

\* The buffers a read is given: any header over the payload of any tag.
Payloads == {WritePayload(x) : x \in Values}
Checksums(data) ==
    {Crc32(data), U32(Crc32(data)[1], (Crc32(data)[2] + 1) % 65536), IGNORED_CRC32}
Buffers ==
    {TagFileOf([DefaultHeader EXCEPT
                    !.blam_fourcc = magic, !.u16_255 = sentinel,
                    !.header_size = U32(0, size), !.group = T.group,
                    !.version = T.version, !.crc32 = crc], data) :
        magic \in {BLAM_FOURCC, U32(0, 0)}, sentinel \in {255, 0},
        size \in {HeaderSize, HeaderSize + 1}, T \in TagTypes,
        crc \in UNION {Checksums(d) : d \in Payloads}, data \in Payloads}

\* A call of to_tag_file on the tag drawn
ToTagFileCall ==
    /\ last.op = "new"
    /\ last.args.tag_data # NoValue
    /\ last' = [Call("to_tag_file", NoPath) EXCEPT
                    !.args = last.args,
                    !.ret = ToTagFile(last.args.tag_data, last.args.T)]
    /\ UNCHANGED <<iterator, threadVars, directories, files, dirs, cacheVars>>

\* A call of read_tag_from_file_buffer as type T, on the buffer drawn or on
\* the file the last call encoded
ReadTagFromFileBufferCall(T) ==
    /\ \/ last.op = "new" /\ last.args.tag_data = NoValue /\ T = last.args.T
       \/ last.op = "to_tag_file"
    /\ LET file == IF last.op = "to_tag_file" THEN last.ret ELSE last.args.file
           r == ReadTagFromFileBuffer(file, last.args.strictness, T)
       IN  last' = [Call("read_tag_from_file_buffer", NoPath) EXCEPT
                        !.args = [last.args EXCEPT !.file = file, !.T = T],
                        !.val = IF last.op = "to_tag_file" THEN last.args.tag_data
                                ELSE NoValue,
                        !.err = r.err, !.out = r.val]
    /\ UNCHANGED <<iterator, threadVars, directories, files, dirs, cacheVars>>

\* Any buffer to read, or any tag to encode and read back.
InitTagFile ==
    /\ NoTree
    /\ \E strictness \in {"Strict", "Relaxed"}, T \in TagTypes :
        \/ \E file \in Buffers :
            last = Input([file |-> file, strictness |-> strictness, T |-> T,
                          tag_data |-> NoValue])
        \/ \E tag_data \in Values :
            last = Input([file |-> <<>>, strictness |-> strictness, T |-> T,
                          tag_data |-> tag_data])

NextTagFile ==
    \/ ToTagFileCall
    \/ \E T \in TagTypes : ReadTagFromFileBufferCall(T)

SpecTagFile == InitTagFile /\ [][NextTagFile]_vars

\* -------------------------------- a CachingTagTree shared between threads
\* The calls that borrow the tree as &self and those that borrow it as
\* &mut self.
SharedOps == {"open_tag_shared", "open_tag_copy"}
ExclusiveOps == {"get", "evict", "commit", "commit_all", "write_tag"}

InCall(t) ==
    threads[t].at \in {"lock_cache", "cache_locked", "opening", "lock_tag", "tag_locked"}

\* A thread outside any call and holding no tag's lock may make a call when
\* the borrow is possible: &mut self while no other call is running, &self
\* while no &mut self call is.
CanBorrow(t, op) ==
    /\ threads[t].at = "idle"
    /\ \A u \in Threads :
        InCall(u) => op \in SharedOps /\ threads[u].op \in SharedOps

HandlesOf(ths) == {ths[t].handle : t \in Threads} \ {NoHandle}

\* The handle a thread has after it was returned one: the new one when the
\* threads may keep it, the one it had otherwise.
Kept(t, hd) ==
    IF hd.inst # NoInst
       /\ Cardinality(HandlesOf([threads EXCEPT ![t] = Idle(hd)])) <= MaxHandles
    THEN hd ELSE threads[t].handle

\* A panic unwinds the thread: what it held is dropped.
Unwound == [Idle(NoHandle) EXCEPT !.at = "panicked"]

constVars == <<directories, strategy, copies, last>>

\* A thread calls open_tag_shared, open_tag_copy, get, evict, commit or
\* commit_all: each starts with self.tag_cache.lock()
Start(t, op, p) ==
    /\ op # "write_tag"
    /\ CanBorrow(t, op)
    /\ threads' = [threads EXCEPT ![t] =
                        [@ EXCEPT !.op = op, !.at = "lock_cache", !.path = p]]
    /\ UNCHANGED <<iterator, constVars, files, dirs, tag_cache, heap, handles,
                   tag_cache_lock, tag_locks>>

\* write_tag: self.inner.write_tag(path, tag)? under Instant, before the lock
StartWrite(t, p, v) ==
    /\ CanBorrow(t, "write_tag")
    /\ LET entered == [threads EXCEPT ![t] =
                        [@ EXCEPT !.op = "write_tag", !.at = "lock_cache",
                                  !.path = p, !.val = v]]
       IN  IF ForwardsWrite(strategy)
           THEN \E w \in VirtualWriteTag(directories, files, dirs, p, v) :
                    /\ files' = w.files
                    /\ dirs' = w.dirs
                    /\ threads' = IF Propagates(w.err) THEN threads ELSE entered
           ELSE /\ threads' = entered
                /\ UNCHANGED <<files, dirs>>
    /\ UNCHANGED <<iterator, constVars, tag_cache, heap, handles, tag_cache_lock, tag_locks>>

\* self.tag_cache.lock().unwrap(): blocks while another thread holds the
\* lock, panics when the Mutex is poisoned
LockCache(t) ==
    /\ threads[t].at = "lock_cache"
    /\ \/ /\ tag_cache_lock = NoThread
          /\ tag_cache_lock' = t
          /\ threads' = [threads EXCEPT ![t].at = "cache_locked"]
          /\ UNCHANGED <<handles, heap>>
       \/ /\ tag_cache_lock = Poisoned
          /\ threads' = [threads EXCEPT ![t] = Unwound]
          /\ handles' = HandlesOf(threads')
          /\ heap' = Collect(heap, tag_cache, handles', copies)
          /\ UNCHANGED tag_cache_lock
    /\ UNCHANGED <<iterator, constVars, files, dirs, tag_cache, tag_locks>>

\* A guard that is dropped before the wrapped tree is opened.
GuardDroppedForOpen(t) == NoThread

\* let mut cache = self.tag_cache.lock().unwrap(): the guard lives until the
\* function returns, so t holds the lock while it opens the wrapped tree
GuardDuringOpen(t) == t

\* What open_tag_shared leaves the calling thread with: the error returned,
\* the handle returned, or open_tag_copy going on to lock the tag.
Opened(t, r) ==
    LET th == threads[t] IN
    IF r.err # NoError THEN Idle(th.handle)
    ELSE IF th.op = "open_tag_shared"
    THEN Idle(Kept(t, Handle(th.path, r.inst)))
    ELSE [th EXCEPT !.at = "lock_tag", !.target = r.inst]

\* open_tag_shared under the lock: cache.get(path), returned when it is Some
OpenSharedLocked(t) ==
    /\ threads[t].at = "cache_locked"
    /\ threads[t].op \in SharedOps
    /\ IF CacheGet(tag_cache, threads[t].path) # NoInst
       THEN \E r \in OpenHit(tag_cache, heap, handles, copies, threads[t].path) :
                /\ tag_cache' = r.cache
                /\ threads' = [threads EXCEPT ![t] = Opened(t, r)]
                /\ handles' = HandlesOf(threads')
                /\ heap' = Collect(r.heap, r.cache, handles', copies)
                /\ tag_cache_lock' = NoThread
       ELSE /\ threads' = [threads EXCEPT ![t].at = "opening"]
            /\ tag_cache_lock' = GuardDuringOpen(t)
            /\ UNCHANGED <<tag_cache, handles, heap>>
    /\ UNCHANGED <<iterator, constVars, files, dirs, tag_locks>>

\* and, the path not cached: self.inner.open_tag_copy(path)?, then the insert
OpenSharedMiss(t) ==
    /\ threads[t].at = "opening"
    /\ \E r \in OpenMiss(directories, tag_cache, heap, handles, copies, files,
                         threads[t].path) :
        /\ tag_cache' = r.cache
        /\ threads' = [threads EXCEPT ![t] = Opened(t, r)]
        /\ handles' = HandlesOf(threads')
        /\ heap' = Collect(r.heap, r.cache, handles', copies)
    /\ tag_cache_lock' = NoThread
    /\ UNCHANGED <<iterator, constVars, files, dirs, tag_locks>>

\* get under the lock
GetLocked(t) ==
    /\ threads[t].at = "cache_locked"
    /\ threads[t].op = "get"
    /\ threads' = [threads EXCEPT ![t] =
            Idle(Kept(t, Handle(@.path, CacheGet(tag_cache, @.path))))]
    /\ handles' = HandlesOf(threads')
    /\ heap' = Collect(heap, tag_cache, handles', copies)
    /\ tag_cache_lock' = NoThread
    /\ UNCHANGED <<iterator, constVars, files, dirs, tag_cache, tag_locks>>

\* evict under the lock: the unwrap of Arc::into_inner panics with the
\* guard alive, which poisons the Mutex
EvictLocked(t) ==
    /\ threads[t].at = "cache_locked"
    /\ threads[t].op = "evict"
    /\ LET i == CacheGet(tag_cache, threads[t].path)
           returns == i = NoInst \/ IntoInner(handles, i)
       IN  /\ tag_cache' = [tag_cache EXCEPT ![threads[t].path] = NoInst]
           /\ threads' = [threads EXCEPT ![t] =
                            IF returns THEN Idle(@.handle) ELSE Unwound]
           /\ tag_cache_lock' = IF returns THEN NoThread ELSE Poisoned
           /\ handles' = HandlesOf(threads')
           /\ heap' = Collect(heap, tag_cache', handles', copies)
    /\ UNCHANGED <<iterator, constVars, files, dirs, tag_locks>>

\* commit under the lock: cache.get(path), then the lock of the tag
CommitLocked(t) ==
    /\ threads[t].at = "cache_locked"
    /\ threads[t].op = "commit"
    /\ LET i == CacheGet(tag_cache, threads[t].path) IN
        /\ threads' = [threads EXCEPT ![t] =
                IF i = NoInst THEN Idle(@.handle)
                ELSE [@ EXCEPT !.at = "lock_tag", !.target = i]]
        /\ tag_cache_lock' = IF i = NoInst THEN NoThread ELSE t
    /\ UNCHANGED <<iterator, constVars, files, dirs, tag_cache, heap, handles, tag_locks>>

\* commit_all under the lock: cache.iter() in some order
CommitAllLocked(t) ==
    /\ threads[t].at = "cache_locked"
    /\ threads[t].op = "commit_all"
    /\ \E order \in Orderings({p \in TagPaths : tag_cache[p] # NoInst}) :
        /\ threads' = [threads EXCEPT ![t] =
                IF order = <<>> THEN Idle(@.handle)
                ELSE [@ EXCEPT !.at = "lock_tag", !.path = order[1],
                               !.target = tag_cache[order[1]],
                               !.todo = Tail(order)]]
        /\ tag_cache_lock' = IF order = <<>> THEN NoThread ELSE t
    /\ UNCHANGED <<iterator, constVars, files, dirs, tag_cache, heap, handles, tag_locks>>

\* write_tag under the lock: the insert of a new Arc
WriteLocked(t) ==
    /\ threads[t].at = "cache_locked"
    /\ threads[t].op = "write_tag"
    /\ LET cached == CacheInsert(tag_cache, heap, handles, copies,
                                 threads[t].path, threads[t].val)
       IN  /\ tag_cache' = cached.cache
           /\ heap' = Collect(cached.heap, cached.cache, handles, copies)
    /\ threads' = [threads EXCEPT ![t] = Idle(@.handle)]
    /\ tag_cache_lock' = NoThread
    /\ UNCHANGED <<iterator, constVars, files, dirs, handles, tag_locks>>

\* tag.lock().unwrap(): blocks while another thread holds the tag's lock
LockTag(t) ==
    /\ threads[t].at = "lock_tag"
    /\ tag_locks[threads[t].target] = NoThread
    /\ tag_locks' = [tag_locks EXCEPT ![threads[t].target] = t]
    /\ threads' = [threads EXCEPT ![t].at = "tag_locked"]
    /\ UNCHANGED <<iterator, constVars, files, dirs, tag_cache, heap, handles, tag_cache_lock>>

\* open_tag_copy: clone_inner() under the tag's lock
CopyLocked(t) ==
    /\ threads[t].at = "tag_locked"
    /\ threads[t].op = "open_tag_copy"
    /\ tag_locks' = [tag_locks EXCEPT ![threads[t].target] = NoThread]
    /\ threads' = [threads EXCEPT ![t] = Idle(@.handle)]
    /\ UNCHANGED <<iterator, constVars, files, dirs, tag_cache, heap, handles, tag_cache_lock>>

\* commit and commit_all: self.inner.write_tag under both locks, then the
\* next cached tag of a commit_all
CommitWrite(t) ==
    /\ threads[t].at = "tag_locked"
    /\ threads[t].op \in {"commit", "commit_all"}
    /\ \E w \in VirtualWriteTag(directories, files, dirs, threads[t].path,
                                heap[threads[t].target]) :
        /\ files' = w.files
        /\ dirs' = w.dirs
    /\ tag_locks' = [tag_locks EXCEPT ![threads[t].target] = NoThread]
    /\ LET th == threads[t] IN
        threads' = [threads EXCEPT ![t] =
            IF th.todo = <<>> THEN Idle(th.handle)
            ELSE [th EXCEPT !.at = "lock_tag", !.path = Head(th.todo),
                            !.target = tag_cache[Head(th.todo)],
                            !.todo = Tail(th.todo)]]
    /\ tag_cache_lock' = IF threads[t].todo = <<>> THEN NoThread ELSE t
    /\ UNCHANGED <<iterator, constVars, tag_cache, heap, handles>>

\* A thread locks the tag of the handle it keeps
LockHandle(t) ==
    /\ threads[t].at = "idle"
    /\ threads[t].handle # NoHandle
    /\ tag_locks[threads[t].handle.inst] = NoThread
    /\ tag_locks' = [tag_locks EXCEPT ![threads[t].handle.inst] = t]
    /\ threads' = [threads EXCEPT ![t].at = "holding"]
    /\ UNCHANGED <<iterator, constVars, files, dirs, tag_cache, heap, handles, tag_cache_lock>>

\* and changes the tag and drops the guard, without calling the tree
UnlockHandle(t, v) ==
    /\ threads[t].at = "holding"
    /\ heap' = [heap EXCEPT ![threads[t].handle.inst] = v]
    /\ tag_locks' = [tag_locks EXCEPT ![threads[t].handle.inst] = NoThread]
    /\ threads' = [threads EXCEPT ![t].at = "idle"]
    /\ UNCHANGED <<iterator, constVars, files, dirs, tag_cache, handles, tag_cache_lock>>

\* A thread drops the handle it keeps
ForgetHandle(t) ==
    /\ threads[t].at = "idle"
    /\ threads[t].handle # NoHandle
    /\ threads' = [threads EXCEPT ![t] = Idle(NoHandle)]
    /\ handles' = HandlesOf(threads')
    /\ heap' = Collect(heap, tag_cache, handles', copies)
    /\ UNCHANGED <<iterator, constVars, files, dirs, tag_cache, tag_cache_lock, tag_locks>>

NextThreads ==
    \/ \E t \in Threads, op \in SharedOps \cup ExclusiveOps, p \in TagPaths :
            Start(t, op, p)
    \/ \E t \in Threads, p \in TagPaths, v \in Values : StartWrite(t, p, v)
    \/ \E t \in Threads : LockCache(t)
    \/ \E t \in Threads : OpenSharedLocked(t)
    \/ \E t \in Threads : OpenSharedMiss(t)
    \/ \E t \in Threads : GetLocked(t)
    \/ \E t \in Threads : EvictLocked(t)
    \/ \E t \in Threads : CommitLocked(t)
    \/ \E t \in Threads : CommitAllLocked(t)
    \/ \E t \in Threads : WriteLocked(t)
    \/ \E t \in Threads : LockTag(t)
    \/ \E t \in Threads : CopyLocked(t)
    \/ \E t \in Threads : CommitWrite(t)
    \/ \E t \in Threads : LockHandle(t)
    \/ \E t \in Threads, v \in Values : UnlockHandle(t, v)
    \/ \E t \in Threads : ForgetHandle(t)

\* The tree of Init, over a directory that holds every tag.
InitThreads ==
    /\ Init
    /\ \A p \in TagPaths : files[directories[0]][p] # NoFile

SpecThreads == InitThreads /\ [][NextThreads]_vars

\* ---------------------------------------------------------------- claims
CachedPaths == {p \in TagPaths : tag_cache[p] # NoInst}

\* What the wrapped tree holds for p: the file of the first root that has one.
InnerHolds(f, p, v) ==
    \E index \in DOMAIN directories :
        /\ f[directories[index]][p] = v
        /\ \A lower \in DOMAIN directories :
                lower < index => f[directories[lower]][p] = NoFile

\* The condition on a single call that the property below states.
C1_Step ==
    \A p \in TagPaths :
        /\ (/\ last'.op = "open_tag_shared" /\ last'.path = p
            /\ last'.err = NoError /\ tag_cache[p] = NoInst)
           => /\ tag_cache'[p] = last'.inst
              /\ last'.inst # NoInst
        /\ (/\ tag_cache[p] # NoInst
            /\ ~(last'.op \in {"evict", "write_tag"} /\ last'.path = p))
           => tag_cache'[p] = tag_cache[p]
        /\ (/\ last'.op = "open_tag_shared" /\ last'.path = p
            /\ tag_cache[p] # NoInst)
           => /\ last'.err = NoError
              /\ last'.inst = tag_cache[p]
              /\ last'.opened = <<>>

\* C1: an open_tag_shared of an uncached path leaves the instance it returns
\* in the cache; the entry stays until an evict or a write_tag of the path;
\* and an open_tag_shared of a cached path returns that very instance (so a
\* change made through one handle is seen through the other) without opening
\* anything on the wrapped tree.
C1_CacheCoherence == [][C1_Step]_vars

\* A second open_tag_shared returned the instance a kept handle refers to,
\* after the tag was changed through that handle.
C1_Witness ==
    /\ last.op = "open_tag_shared"
    /\ last.opened = <<>>
    /\ \E hd \in handles :
        /\ hd.path = last.path
        /\ hd.inst = last.inst
        /\ hd.inst = tag_cache[last.path]
        /\ ~InnerHolds(files, last.path, heap[hd.inst])

\* The condition on a single call that the property below states.
C2_Step ==
    strategy = "Manual" =>
        /\ last'.op = "write_tag" =>
                files' = files /\ dirs' = dirs /\ last'.written = <<>>
        /\ \A p \in TagPaths :
                (\E r \in Roots : files'[r][p] # files[r][p]) =>
                    \/ last'.op = "commit" /\ last'.path = p
                    \/ last'.op = "commit_all"

\* C2: under Manual a write_tag changes nothing of the wrapped tree and calls
\* no write on it; the wrapped tree's content for a path changes only in a
\* commit of that path or in a commit_all.
C2_ManualWritesStayCached == [][C2_Step]_vars

\* A write_tag under Manual left the written value in the cache and not in
\* the wrapped tree.
C2_Witness ==
    /\ strategy = "Manual"
    /\ last.op = "write_tag"
    /\ tag_cache[last.path] # NoInst
    /\ heap[tag_cache[last.path]] = last.val
    /\ ~InnerHolds(files, last.path, last.val)

\* The condition on a single call that the property below states.
C3_Step ==
    (strategy = "Instant" /\ last'.op = "write_tag") =>
        LET p == last'.path
            v == last'.val
        IN  /\ last'.written = <<p>>
            /\ \E w \in VirtualWriteTag(directories, files, dirs, p, v) :
                    w.err = last'.err /\ files' = w.files /\ dirs' = w.dirs
            /\ last'.err # NoError =>
                    /\ tag_cache' = tag_cache
                    /\ heap' = heap
            /\ last'.err = NoError =>
                    /\ InnerHolds(files', p, v)
                    /\ tag_cache'[p] # NoInst
                    /\ heap'[tag_cache'[p]] = v
                    /\ \A hd \in handles' : hd.inst # tag_cache'[p]
                    /\ \A q \in TagPaths \ {p} : tag_cache'[q] = tag_cache[q]

\* C3: under Instant a write_tag calls the wrapped tree's write once; when
\* that write fails its error is returned and the cache (keys and instances)
\* is as before; when it succeeds the wrapped tree holds the value and the
\* cache entry is a new instance holding a copy of it.
C3_InstantWriteForwardsFirst == [][C3_Step]_vars

\* A write_tag under Instant failed on the wrapped tree and the entry cached
\* before for the path is still there, with another value.
C3_Witness ==
    /\ strategy = "Instant"
    /\ last.op = "write_tag"
    /\ last.err # NoError
    /\ tag_cache[last.path] # NoInst
    /\ heap[tag_cache[last.path]] # last.val

\* C4: after any sequence of open_tag_shared, open_tag_copy, write_tag, get,
\* commit and commit_all, every handle the caller holds refers to the instance
\* the cache holds for its path. (evict, which the claim leaves out, is the
\* one call that panics.)
C4_HandlesAreCacheEntries ==
    ~Panicked => \A hd \in handles : hd.inst = tag_cache[hd.path]

\* The condition on a single call that the property below states.
C5_Step ==
    last'.op = "evict" =>
        LET p == last'.path IN
        /\ ~last'.panicked
        /\ tag_cache'[p] = NoInst
        /\ tag_cache[p] # NoInst => last'.some /\ last'.out = heap[tag_cache[p]]
        /\ tag_cache[p] = NoInst => ~last'.some
        /\ files' = files /\ dirs' = dirs

\* C5: evict returns; it leaves the path uncached, returns the
\* cached tag when there was one and None when there was none, and leaves
\* the wrapped tree alone.
C5_EvictReturnsTheInstance == [][C5_Step]_vars

\* The condition on a single call that the property below states.
C6_Step ==
    last'.op = "commit" =>
        LET p == last'.path IN
        IF tag_cache[p] = NoInst
        THEN /\ last'.err = TagNotFound(p)
             /\ last'.written = <<>>
             /\ files' = files /\ dirs' = dirs
        ELSE /\ last'.written = <<p>>
             /\ \A r \in Roots, q \in TagPaths \ {p} : files'[r][q] = files[r][q]
             /\ \E w \in VirtualWriteTag(directories, files, dirs, p,
                                         heap[tag_cache[p]]) :
                    w.err = last'.err /\ files' = w.files /\ dirs' = w.dirs
             /\ last'.err = NoError => InnerHolds(files', p, heap[tag_cache[p]])

\* C6: commit writes the cached tag of its path, and of no other path, to
\* the wrapped tree and returns what that write returned; for a path that is
\* not cached it returns TagNotFound and writes nothing.
C6_CommitWritesOnePath == [][C6_Step]_vars

\* A commit wrote its path while another cached path stayed unwritten.
C6_Witness ==
    /\ last.op = "commit"
    /\ last.err = NoError
    /\ InnerHolds(files, last.path, heap[tag_cache[last.path]])
    /\ \E q \in CachedPaths \ {last.path} : ~InnerHolds(files, q, heap[tag_cache[q]])

\* The condition on a single call that the property below states.
C7_Step ==
    last'.op = "commit_all" =>
        LET written == last'.written
            errors == last'.errors
            failed == {errors[i].path : i \in DOMAIN errors}
        IN  /\ Len(written) = Cardinality(CachedPaths)
            /\ {written[i] : i \in DOMAIN written} = CachedPaths
            /\ Len(errors) = Cardinality(failed)
            /\ failed \subseteq CachedPaths
            /\ \A i \in DOMAIN errors :
                    /\ errors[i].err \in {FailedToWriteFile, FailedToReadFile}
                    /\ \A r \in Roots :
                            files'[r][errors[i].path] = files[r][errors[i].path]
            /\ \A p \in CachedPaths \ failed :
                    InnerHolds(files', p, heap[tag_cache[p]])
            /\ \A r \in Roots, p \in TagPaths \ CachedPaths :
                    files'[r][p] = files[r][p]

\* C7: commit_all calls the wrapped tree's write once for every cached path,
\* whatever fails; the list returned names exactly the paths whose write
\* failed, each with an error of the wrapped tree, and every other cached
\* path has been written.
C7_CommitAllNeverStops == [][C7_Step]_vars

\* The first write of a commit_all failed and the second was made and is in
\* the wrapped tree.
C7_Witness ==
    /\ last.op = "commit_all"
    /\ Len(last.written) = 2
    /\ Len(last.errors) = 1
    /\ last.errors[1].path = last.written[1]
    /\ InnerHolds(files, last.written[2], heap[tag_cache[last.written[2]]])
    /\ ~InnerHolds(files, last.written[1], heap[tag_cache[last.written[1]]])

\* The condition on a single call that the property below states.
C8_Step ==
    /\ (last'.op = "open_tag_copy" /\ last'.err = NoError) =>
            /\ tag_cache'[last'.path] # NoInst
            /\ last'.out = heap'[tag_cache'[last'.path]]
            /\ last'.inst # NoInst =>
                    /\ last'.inst \in copies'
                    /\ last'.inst \notin Live(tag_cache', handles', {})
                    /\ heap'[last'.inst] = last'.out
    /\ last'.op = "copy.mutate" =>
            /\ tag_cache' = tag_cache
            /\ handles' = handles
            /\ \A i \in Live(tag_cache, handles, {}) : heap'[i] = heap[i]

\* C8: the copy open_tag_copy returns is an instance of its own, equal to the
\* cached tag; changing it changes neither the cache nor the tag behind any
\* cached entry or handle (so neither what a later commit writes).
C8_CopyIsPrivate == [][C8_Step]_vars

\* The caller changed its copy while the tag is cached and a handle to it is
\* held, and the copy now differs from the cached tag.
C8_Witness ==
    /\ last.op = "copy.mutate"
    /\ last.inst \in copies
    /\ \E hd \in handles :
        /\ hd.inst = tag_cache[hd.path]
        /\ heap[hd.inst] # heap[last.inst]

\* C9: files_in_path returns a list the wrapped tree returns for the same
\* path: every tag it lists has a file under some root, whatever is cached.
C9_ListingIsTheDelegates ==
    last.op = "files_in_path" =>
        /\ [some |-> last.some, items |-> last.items]
                \in VirtualFilesInPath(directories, files, dirs, last.dir)
        /\ \A i \in DOMAIN last.items :
                last.items[i].item_type = "Tag" =>
                    \E r \in Roots, p \in TagPaths :
                        TagItem(p) = last.items[i] /\ files[r][p] # NoFile

\* A tag written under Manual and not committed is cached (open returns it)
\* and the listing of its directory does not have it.
C9_Witness ==
    /\ strategy = "Manual"
    /\ last.op = "files_in_path"
    /\ last.some
    /\ \E p \in CachedPaths :
        /\ Parent(p) = last.dir
        /\ \A r \in Roots : files[r][p] = NoFile
        /\ \A i \in DOMAIN last.items : last.items[i] # TagItem(p)

\* C10: VirtualTagDirectory::open_tag_copy returns TagNotFound exactly when
\* no root has the file, and otherwise reads the file of the lowest-index
\* root that has it (or fails to read it).
Holders(p) ==
    {index \in DOMAIN directories : files[directories[index]][p] # NoFile}

C10_OverlayReadPrecedence ==
    last.op = "virtual.open_tag_copy" =>
        LET p == last.path IN
        /\ last.err = TagNotFound(p) <=> Holders(p) = {}
        /\ last.err = NoError =>
                \E index \in Holders(p) :
                    /\ \A other \in Holders(p) : index <= other
                    /\ last.out = files[directories[index]][p]
        /\ last.err \in {NoError, TagNotFound(p), FailedToReadFile}

\* Two roots hold the file with different contents and the open read the
\* first root's.
C10_Witness ==
    /\ last.op = "virtual.open_tag_copy"
    /\ last.err = NoError
    /\ Cardinality(Holders(last.path)) >= 2
    /\ last.out = files[directories[0]][last.path]
    /\ last.out # files[directories[1]][last.path]

\* The root a write of p goes to: the lowest-index root holding p, the first
\* root when none holds it.
WriteTarget(p) ==
    IF Holders(p) = {} THEN 0
    ELSE CHOOSE index \in Holders(p) : \A other \in Holders(p) : index <= other

\* The condition on a single call that the property below states.
C11_Step ==
    last'.op = "virtual.write_tag" =>
        LET p == last'.path
            v == last'.val
            target == WriteTarget(p)
        IN  /\ \A r \in Roots, q \in TagPaths :
                    (q # p \/ ~(target \in DOMAIN directories /\ directories[target] = r))
                        => files'[r][q] = files[r][q]
            /\ (last'.err = NoError /\ ~last'.panicked) =>
                    /\ target \in DOMAIN directories
                    /\ files'[directories[target]][p] = v
                    /\ InnerHolds(files', p, v)
                    /\ OpenOk(v) \in VirtualOpenTagCopy(directories, files', p)

\* C11: VirtualTagDirectory::write_tag overwrites the file in the root that
\* resolves the path for reading (the lowest-index root holding it) and
\* writes under root 0 when no root holds it; no file of another root and no
\* other path changes, and after a successful write open_tag_copy reads the
\* value written.
C11_OverlayWriteTarget == [][C11_Step]_vars

\* A write succeeded in place under the second root: the first root still has
\* no file for the path and the second holds the new value.
C11_Witness ==
    /\ last.op = "virtual.write_tag"
    /\ last.err = NoError
    /\ 1 \in DOMAIN directories
    /\ files[directories[0]][last.path] = NoFile
    /\ files[directories[1]][last.path] = last.val
    /\ last.val # InitValue(directories[1])

\* C12: the list VirtualTagDirectory::files_in_path returns has no two
\* entries equal in kind, tag group and path.
C12_ListingHasNoDuplicates ==
    last.op = "virtual.files_in_path" =>
        \A i, j \in DOMAIN last.items : last.items[i] = last.items[j] => i = j

\* The logical tags of the overlay: the paths some root has a file for.
LogicalTags == {p \in TagPaths : Holders(p) # {}}

\* C13: iterate_through_all_tags over a VirtualTagDirectory yields exactly
\* the logical tags that pass the filter (all of them with no filter), each
\* exactly once, at any depth.
C13_TraversalTotality ==
    last.op = "iterate_through_all_tags" =>
        /\ \A i, j \in DOMAIN last.ret : last.ret[i] = last.ret[j] => i = j
        /\ {last.ret[i] : i \in DOMAIN last.ret}
                = {p \in LogicalTags : last.args = NoFilter \/ Passes(last.args, p)}

\* The reference glob matcher: `?` is any one character, `*` any number of
\* characters, none included, any other character itself.
RECURSIVE GlobMatches(_, _)
GlobMatches(pattern, s) ==
    IF pattern = <<>> THEN s = <<>>
    ELSE IF Head(pattern) = "*"
    THEN \E k \in 1 .. (Len(s) + 1) : GlobMatches(Tail(pattern), SubSeq(s, k, Len(s)))
    ELSE /\ s # <<>>
         /\ Head(pattern) = "?" \/ Head(pattern) = Head(s)
         /\ GlobMatches(Tail(pattern), Tail(s))

\* C14: filter_passes_raw agrees with the reference glob matcher for every
\* pattern and candidate: `*` matches any number of characters, none
\* included.
C14_MatcherIsGlob ==
    last.op = "filter_passes_raw" =>
        last.ret = GlobMatches(last.args.filter, last.args.what)

\* C15: with a group, passes is true exactly when the path's group is the
\* filter's and the pattern matches the path without its extension; with no
\* group, exactly when the pattern matches the internal path, extension
\* included.
C15_GroupScoping ==
    last.op = "passes" =>
        last.ret =
            IF last.args.group # NoGroup
            THEN /\ last.path.group = last.args.group
                 /\ GlobMatches(last.args.filter, PathStr(last.path.path))
            ELSE GlobMatches(last.args.filter, ToInternalPath(last.path))

\* C16: a Strict read of to_tag_file(x), as the type x was written from,
\* succeeds and returns x; the header written has the group and version of
\* the type, header size 0x40, the value 0x00FF, the magic, and the checksum
\* of the bytes after the header.
C16_RoundTrip ==
    /\ last.op = "to_tag_file" =>
            /\ last.ret.header[36] = last.args.T.group
            /\ last.ret.header[56] = last.args.T.version
            /\ last.ret.header[44] = U32(0, 64)
            /\ last.ret.header[58] = 255
            /\ last.ret.header[60] = BLAM_FOURCC
            /\ last.ret.header[40] = Crc32(last.ret.data)
    /\ (/\ last.op = "read_tag_from_file_buffer"
        /\ last.val # NoValue
        /\ last.args.file = ToTagFile(last.val, last.args.T)
        /\ last.args.strictness = "Strict")
       => last.err = NoError /\ last.out = last.val

\* A tag was written and read back in Strict mode as its own type.
C16_Witness ==
    /\ last.op = "read_tag_from_file_buffer"
    /\ last.val # NoValue
    /\ last.args.strictness = "Strict"
    /\ last.args.file.header[36] = last.args.T.group
    /\ last.args.file.header[56] = last.args.T.version
    /\ last.out = last.val

\* The header of the buffer read has the magic, the 0x00FF and the size.
StructurallyValid(file) ==
    /\ file.header[60] = BLAM_FOURCC
    /\ file.header[58] = 255
    /\ file.header[44] = U32(0, 64)

\* The stored checksum is checked and is not that of the bytes after the
\* header.
ChecksumWrong(file) ==
    /\ file.header[40] # IGNORED_CRC32
    /\ file.header[40] # Crc32(file.data)

\* C17: for a buffer with a structurally valid header a Strict read fails with
\* ChecksumMismatch exactly when the stored checksum is not 0xFFFFFFFF and is
\* not the checksum of the bytes after the header; a Relaxed read never fails
\* with ChecksumMismatch.
C17_ChecksumEnforcement ==
    last.op = "read_tag_from_file_buffer" =>
        /\ (last.args.strictness = "Strict" /\ StructurallyValid(last.args.file)) =>
                (last.err = ChecksumMismatch <=> ChecksumWrong(last.args.file))
        /\ last.args.strictness = "Relaxed" => last.err # ChecksumMismatch

\* A Strict read accepted a buffer whose stored checksum is the disable value
\* and not the checksum of its bytes.
C17_Witness ==
    /\ last.op = "read_tag_from_file_buffer"
    /\ last.args.strictness = "Strict"
    /\ last.args.file.header[40] = IGNORED_CRC32
    /\ Crc32(last.args.file.data) # IGNORED_CRC32
    /\ last.err = NoError

\* C18: a read reports the first check that fails, in the order header
\* structure, checksum, group, version.
C18_DecodeErrorPrecedence ==
    last.op = "read_tag_from_file_buffer" =>
        LET file == last.args.file
            T == last.args.T
            checksum == last.args.strictness = "Strict" /\ ChecksumWrong(file)
        IN  /\ ~StructurallyValid(file) => last.err = TagParseFailure
            /\ (StructurallyValid(file) /\ checksum) => last.err = ChecksumMismatch
            /\ (StructurallyValid(file) /\ ~checksum /\ file.header[36] # T.group)
                    => last.err = TagHeaderGroupTypeMismatch
            /\ last.err = TagHeaderGroupVersionMismatch
                    => file.header[36] = T.group /\ file.header[56] # T.version
            /\ (/\ StructurallyValid(file) /\ ~checksum
                /\ file.header[36] = T.group /\ file.header[56] # T.version)
                    => last.err = TagHeaderGroupVersionMismatch

\* A buffer wrong in its magic, its checksum, its group and its version was
\* refused for its structure.
C18_Witness ==
    /\ last.op = "read_tag_from_file_buffer"
    /\ last.args.strictness = "Strict"
    /\ last.args.file.header[60] # BLAM_FOURCC
    /\ ChecksumWrong(last.args.file)
    /\ last.args.file.header[36] # last.args.T.group
    /\ last.args.file.header[56] # last.args.T.version
    /\ last.err = TagParseFailure

\* C19: VirtualTagDirectory::write_tag never returns the read-failure kind:
\* a failure to create the directories or to write the bytes is returned as
\* FailedToWriteFile.
C19_WriteFailureIsAWriteError ==
    last.op = "virtual.write_tag" => last.err \in {NoError, FailedToWriteFile}

\* Thread t waits for a lock that thread u holds.
Waiting(t, u) ==
    \/ threads[t].at = "lock_cache" /\ tag_cache_lock = u
    \/ threads[t].at = "lock_tag" /\ tag_locks[threads[t].target] = u

\* Some threads wait for each other, or for a thread outside any call that
\* holds no lock they wait for: none of them can go on.
Deadlocked ==
    \E S \in SUBSET Threads \ {{}} : \A t \in S : \E u \in S : Waiting(t, u)

\* The lock of tag_cache is never asked for by a thread holding a tag's lock.
LockOrder ==
    \A t \in Threads :
        threads[t].at = "lock_cache" => \A i \in Inst : tag_locks[i] # t

\* C20: with several threads calling the tree and locking the handles they
\* keep, no thread calling the tree while it holds a tag's lock, every call
\* returns: none has ended in a panic, no threads wait for each other, and
\* the locks are taken in the order tag_cache, then tag.
C20_EveryOperationReturns ==
    /\ \A t \in Threads : threads[t].at # "panicked"
    /\ ~Deadlocked
    /\ LockOrder

\* C24: a VirtualTagDirectory that new() returned, from an empty list of
\* directories too, has a root 0: write_tag of a path that no root resolves
\* returns Ok or an error and never indexes the list of roots out of range.
C24_WriteNeverIndexesOutOfRange ==
    last.op = "virtual.write_tag" => ~last.panicked

\* The condition on a single call that the property below states.
C25_Step ==
    last'.op \in {"open_tag_shared", "open_tag_copy", "get", "files_in_path",
                  "commit", "commit_all"} =>
        LET p == last'.path
            opens == /\ last'.op \in {"open_tag_shared", "open_tag_copy"}
                     /\ tag_cache[p] = NoInst
        IN  /\ IF opens /\ last'.err = NoError
               THEN /\ tag_cache'[p] # NoInst
                    /\ \A q \in TagPaths \ {p} : tag_cache'[q] = tag_cache[q]
               ELSE tag_cache' = tag_cache
            /\ opens =>
                    /\ last'.opened = <<p>>
                    /\ \E r \in VirtualOpenTagCopy(directories, files, p) :
                            r.err = last'.err

\* C25: open_tag_shared, open_tag_copy, get, files_in_path, commit and
\* commit_all leave the cached paths and the instance cached for each as they
\* were, but for a successful open of an uncached path, which adds that path
\* and no other; an open whose open on the wrapped tree fails adds nothing
\* and returns the error of the wrapped tree.
C25_OnlyEvictAndWriteRemove == [][C25_Step]_vars

\* An open of an uncached path succeeded while another path was cached.
C25_Witness ==
    /\ last.op \in {"open_tag_shared", "open_tag_copy"}
    /\ last.err = NoError
    /\ last.opened = <<last.path>>
    /\ tag_cache[last.path] # NoInst
    /\ \E q \in CachedPaths : q # last.path

\* The condition on a single step that the property below states.
C23_Step ==
    \A t \in Threads :
        \* the wrapped tree is opened for an uncached path, by one thread
        /\ threads'[t].at = "opening" =>
                /\ tag_cache'[threads'[t].path] = NoInst
                /\ \A u \in Threads \ {t} : threads'[u].at # "opening"
        \* and never for a path that another call has cached in between
        /\ (threads[t].at = "cache_locked" /\ threads[t].op = "open_tag_shared"
                /\ tag_cache[threads[t].path] # NoInst) =>
                /\ threads'[t].at # "opening"
                /\ tag_cache' = tag_cache
        \* the handle returned is to the instance the cache holds
        /\ (threads[t].op = "open_tag_shared" /\ InCall(t)
                /\ threads'[t].at = "idle"
                /\ threads'[t].handle # threads[t].handle) =>
                LET hd == threads'[t].handle IN
                /\ hd.path = threads[t].path
                /\ tag_cache'[hd.path] = hd.inst
                /\ \A u \in Threads \ {t} :
                        (threads[u].handle.path = hd.path
                         /\ threads[u].handle.inst = tag_cache[hd.path]) =>
                            threads'[u].handle = hd

\* C23: when two threads call open_tag_shared for the same uncached path at
\* the same time and the wrapped tree's open succeeds, the wrapped tree is
\* opened once and both get handles to the same instance, the one the cache
\* holds: the lock of tag_cache is held from the lookup through the insert.
C23_SinglePopulation == [][C23_Step]_vars

\* One thread opens the wrapped tree for a path while another thread's
\* open_tag_shared of the same path waits for the lock.
C23_Witness ==
    \E t, u \in Threads :
        /\ threads[t].at = "opening" /\ threads[t].op = "open_tag_shared"
        /\ threads[u].at = "lock_cache" /\ threads[u].op = "open_tag_shared"
        /\ threads[u].path = threads[t].path
        /\ tag_cache[threads[t].path] = NoInst
        /\ files[directories[0]][threads[t].path] # NoFile

\* Place a comes before place b in a depth-first walk in listing order: a
\* directory before what is below it, and what is below it before the
\* entries listed after it.
RECURSIVE Before(_, _)
Before(a, b) ==
    IF a = <<>> THEN b # <<>>
    ELSE IF b = <<>> THEN FALSE
    ELSE IF a[1] # b[1] THEN a[1] < b[1]
    ELSE Before(Tail(a), Tail(b))

VisitedPlaces == {iterator.visited[i].place : i \in 1 .. Len(iterator.visited)}

\* C21: the iterator yields tags depth-first in listing order: the files of
\* a directory entry are pushed as a new level of the stack, every entry
\* below a directory is taken before any entry listed after the directory,
\* the entries of one listing are taken in the order of the listing, and
\* the tag next returns is the entry taken last.
C21_DepthFirstInListingOrder ==
    LET v == iterator.visited IN
    \* what was taken was taken in depth-first listing order
    /\ \A i, j \in 1 .. Len(v) : i < j => Before(v[i].place, v[j].place)
    \* nothing queued was passed over
    /\ \A q \in iterator.queued :
            (\E i \in 1 .. Len(v) : Before(q, v[i].place)) => q \in VisitedPlaces
    \* level n of the stack holds the rest of one listing n directories deep,
    \* in the order of the listing
    /\ \A n \in 1 .. Len(iterator.stack) :
        \A k \in 1 .. Len(iterator.stack[n]) :
            LET q == iterator.places[n][k] IN
            /\ Len(q) = n
            /\ q \in iterator.queued \ VisitedPlaces
            /\ k > 1 => /\ q[n] = iterator.places[n][k - 1][n] + 1
                        /\ SubSeq(q, 1, n - 1) =
                                SubSeq(iterator.places[n][k - 1], 1, n - 1)
    /\ (last.op = "next" /\ last.some) =>
            /\ v[Len(v)].item.item_type = "Tag"
            /\ last.path = ItemTagPath(v[Len(v)].item)

\* A directory was listed first, the tag below it was yielded, and then
\* the tag listed after the directory.
C21_Witness ==
    LET v == iterator.visited IN
    /\ Len(v) = 3
    /\ v[1].item.item_type = "Directory" /\ v[1].place = <<1>>
    /\ v[2].item.item_type = "Tag" /\ v[2].place = <<1, 1>>
    /\ v[3].item.item_type = "Tag" /\ v[3].place = <<2>>
    /\ last.op = "next" /\ last.some

\* next has returned None.
Drained ==
    /\ iterator # NoIterator
    /\ iterator.stack = <<>>
    /\ last.op = "next" /\ ~last.some

\* The directory entries taken off the stack so far.
Expanded ==
    {i \in 1 .. Len(iterator.visited) :
        iterator.visited[i].item.item_type = "Directory"}

\* Each entry is taken once and each directory entry taken is listed once,
\* after the listing of the root; with the stack empty every entry queued
\* has been taken.
C22_ExpandedOnce ==
    /\ Len(iterator.visited) = Cardinality(VisitedPlaces)
    /\ iterator # NoIterator => iterator.queries = 1 + Cardinality(Expanded)
    /\ iterator.stack = <<>> => VisitedPlaces = iterator.queued

\* A call of next on an empty stack (a step that is not a write from
\* outside) returns None and leaves the iterator as it was, with no call of
\* files_in_path.
C22_Step ==
    (iterator # NoIterator /\ iterator.stack = <<>>
        /\ last'.op \in {"next", "next.continue"}
        /\ files' = files /\ dirs' = dirs) =>
            /\ last'.op = "next" /\ ~last'.some
            /\ iterator' = iterator

\* C22: over a finite tree, calls of next go on to return None, each queued
\* directory entry having been expanded once; once next has returned None
\* every later call returns None and does not query the tree.
C22_TraversalTerminates ==
    /\ [](C22_ExpandedOnce)
    /\ [][C22_Step]_vars
    /\ (iterator.stack # <<>>) ~> Drained

\* next returned None after a traversal that expanded a directory and took
\* a tag below it.
C22_Witness ==
    /\ Drained
    /\ iterator.queries >= 2
    /\ \E i \in 1 .. Len(iterator.visited) : Len(iterator.visited[i].place) = 2

====
